---- MODULE Spec2Model ----
(***************************************************************************)
(* Model of discord_notifier.py: the DiscordNotifier.send_message method,  *)
(* load_config and the main entry point.  One run of the model is one      *)
(* invocation, either of main (the CLI) or of send_message called directly *)
(* on a constructed DiscordNotifier.  The file system and the HTTP         *)
(* transport are the environment: the result of os.path.exists, of open    *)
(* and of requests.post is chosen nondeterministically at the call.        *)
(***************************************************************************)
EXTENDS Integers, Sequences, FiniteSets, TLC

\* Longest attachment list explored.
MaxAtt == 2

\* Python's None, as a value distinct from every string of the model.
None == "<None>"

\* Values a CLI flag can have: not given (None), given empty, given non-empty.
CliValues == {None, "", "cli"}

\* Values a config key can have when it is present in the JSON object.
ConfigValues == {"", "cfg"}

ConfigKeys == {"webhook_url", "default_username", "default_avatar_url"}

\* The states of the config file on disk.
ConfigStates == {"object", "nonobject", "missing", "invalid", "unreadable"}

\* Attachment paths, as sequences of path components.
Paths == {<<"a.txt">>, <<"d", "b.txt">>}

RECURSIVE SeqsUpTo(_, _)
SeqsUpTo(S, n) ==
    IF n = 0 THEN {<<>>}
    ELSE LET shorter == SeqsUpTo(S, n - 1)
         IN  shorter \cup {Append(s, x) : s \in {t \in shorter : Len(t) = n - 1}, x \in S}

PathLists == SeqsUpTo(Paths, MaxAtt)

\* argparse, nargs='+': the flag is absent (None) or carries at least one path.
CliAttachments ==
    {[present |-> FALSE, list |-> <<>>]}
        \cup {[present |-> TRUE, list |-> l] : l \in PathLists \ {<<>>}}

\* A direct caller of send_message may also pass an empty list.
DirectAttachments ==
    {[present |-> FALSE, list |-> <<>>]}
        \cup {[present |-> TRUE, list |-> l] : l \in PathLists}

\* The JSON objects a config file can hold: any subset of the keys, each
\* with a value.
Configs ==
    UNION {[ks -> ConfigValues] : ks \in SUBSET ConfigKeys}

NoConfig == [k \in {} |-> ""]

\* What requests.post followed by raise_for_status can do: succeed, raise a
\* transport error or an HTTP status error (both RequestException), or raise
\* an exception outside that hierarchy.
PostOutcomes == {"ok", "ConnectionError", "HTTPError", "OSError"}

VARIABLES
    caller,        \* "main" or "direct"
    cfgState,      \* state of the config file
    cfgFile,       \* the JSON object in the config file (if it is one)
    args,          \* the parsed command line
    pc,            \* position in the program
    config,        \* main: result of load_config
    webhook_url,   \* main: resolved URL / notifier.webhook_url
    username,      \* resolved username / send_message parameter
    avatar_url,    \* resolved avatar URL / send_message parameter
    attachments,   \* send_message parameter
    payload,       \* send_message: payload dict
    files,         \* send_message: files list
    i,             \* send_message: enumerate index
    handles,       \* file objects created by open: "open" or "closed"
    exc,           \* exception in flight inside send_message's try block
    posts,         \* calls of requests.post made so far
    existsLog,     \* calls of os.path.exists made so far
    stderr,        \* diagnostics printed to sys.stderr
    stdout,        \* lines printed to sys.stdout
    result,        \* outcome of send_message: "none", "true", "false", "raised"
    exitCode       \* process exit code, -1 while running

vars == <<caller, cfgState, cfgFile, args, pc, config, webhook_url, username,
          avatar_url, attachments, payload, files, i, handles, exc, posts,
          existsLog, stderr, stdout, result, exitCode>>

inputs == <<caller, cfgState, cfgFile, args>>

----------------------------------------------------------------------------
\* Pure helpers.

\* Variant: `v is not None`.
Truthy_NotNone(v) == v /= None

\* Python truthiness of None and of strings.
Truthy(v) == v /= None /\ v /= ""

\* Variant: the config value is preferred to the CLI flag.
PyOr_ConfigFirst(a, b) == IF b /= None /\ b /= "" THEN b ELSE a

\* a or b
PyOr(a, b) == IF Truthy(a) THEN a ELSE b

\* d.get(k)
DictGet(d, k) == IF k \in DOMAIN d THEN d[k] ELSE None

\* os.path.basename
Basename(p) == p[Len(p)]

\* Variant: the field is numbered by its position among the files found.
FieldName_Filtered(n) == <<"file", Len(files)>>

\* 'file' + str(i)
FieldName(n) == <<"file", n>>

\* json.dumps(payload): a text, not the dict.
JsonDumps(p) == <<"json-text", p>>

\* Variant: `attachments is None`.
NotAttachments_NoneOnly(att) == ~att.present

\* `not attachments`
NotAttachments(att) == ~att.present \/ att.list = <<>>

\* isinstance(e, requests.exceptions.RequestException)
IsRequestException(e) == e \in {"ConnectionError", "HTTPError"}

\* Variant: without the final `except Exception` clause.
LoadConfigFails_NoCatchAll(s) == s \in {"missing", "invalid"}

\* load_config's three except clauses: every failure to read or parse.
LoadConfigFails(s) == s \in {"missing", "invalid", "unreadable"}

\* The payload dict of lines 52-62.
BuildPayload(message, user, avatar) ==
    LET ks == {"content"}
              \cup (IF Truthy(user) THEN {"username"} ELSE {})
              \cup (IF Truthy(avatar) THEN {"avatar_url"} ELSE {})
    IN  [k \in ks |-> CASE k = "content" -> message
                        [] k = "username" -> user
                        [] k = "avatar_url" -> avatar]

\* for _, file_data in files: if not file_data[1].closed: file_data[1].close()
CloseFiles(hs, fs) ==
    [h \in DOMAIN hs |->
        IF \E n \in DOMAIN fs : fs[n].handle = h THEN "closed" ELSE hs[h]]

\* Variant: the result of send_message is ignored.
ExitCodeOf_AlwaysZero(res) == 0

\* sys.exit(0 if success else 1)
ExitCodeOf(res) == IF res = "true" THEN 0 ELSE 1

Message == "hello"

----------------------------------------------------------------------------
Init ==
    /\ caller \in {"main", "direct"}
    /\ cfgState \in ConfigStates
    /\ cfgFile \in Configs
    /\ cfgState /= "object" => cfgFile = NoConfig
    /\ caller = "direct" => cfgState = "object" /\ cfgFile = NoConfig
    /\ args \in [webhook_url : CliValues, username : CliValues,
                 avatar_url : CliValues, attachments : DirectAttachments,
                 dry_run : BOOLEAN]
    /\ caller = "main" => args.attachments \in CliAttachments
    /\ caller = "direct" => args.webhook_url = "cli" /\ args.dry_run = FALSE
    /\ pc = IF caller = "main" THEN "load_config" ELSE "send_message"
    /\ config = NoConfig
    /\ webhook_url = IF caller = "main" THEN None ELSE args.webhook_url
    /\ username = IF caller = "main" THEN None ELSE args.username
    /\ avatar_url = IF caller = "main" THEN None ELSE args.avatar_url
    /\ attachments = args.attachments
    /\ payload = NoConfig
    /\ files = <<>>
    /\ i = 0
    /\ handles = <<>>
    /\ exc = "none"
    /\ posts = <<>>
    /\ existsLog = <<>>
    /\ stderr = <<>>
    /\ stdout = <<>>
    /\ result = "none"
    /\ exitCode = -1


----------------------------------------------------------------------------
\* main, lines 166-167, and load_config, lines 130-142.
Main_LoadConfig ==
    /\ pc = "load_config"
    /\ IF LoadConfigFails(cfgState)
       THEN /\ stderr' = Append(stderr, <<"config-error", cfgState>>)
            /\ exitCode' = 1
            /\ pc' = "exited"
            /\ UNCHANGED config
       ELSE /\ config' = cfgFile
            /\ pc' = "resolve_webhook"
            /\ UNCHANGED <<stderr, exitCode>>
    /\ UNCHANGED <<inputs, webhook_url, username, avatar_url, attachments,
                   payload, files, i, handles, exc, posts, existsLog, stdout,
                   result>>

\* An exception nothing catches: the interpreter prints the traceback and
\* the process ends with status 1.
Traceback(what) ==
    /\ stderr' = Append(stderr, <<"traceback", what>>)
    /\ exitCode' = 1
    /\ pc' = "exited"

\* `args.x or config.get(k)` raises AttributeError when the left operand is
\* falsy and the loaded JSON value is not an object.
GetRaises(cli) == ~Truthy(cli) /\ cfgState = "nonobject"

\* main, lines 170-173.
Main_ResolveWebhook ==
    /\ pc = "resolve_webhook"
    /\ IF GetRaises(args.webhook_url)
       THEN /\ Traceback("AttributeError")
            /\ UNCHANGED webhook_url
       ELSE LET url == PyOr(args.webhook_url, DictGet(config, "webhook_url"))
            IN  /\ webhook_url' = url
                /\ IF ~Truthy(url)
                   THEN /\ stderr' = Append(stderr, <<"no-webhook-url">>)
                        /\ exitCode' = 1
                        /\ pc' = "exited"
                   ELSE /\ pc' = "resolve_username"
                        /\ UNCHANGED <<stderr, exitCode>>
    /\ UNCHANGED <<inputs, config, username, avatar_url, attachments, payload,
                   files, i, handles, exc, posts, existsLog, stdout, result>>

\* main, line 176.
Main_ResolveUsername ==
    /\ pc = "resolve_username"
    /\ IF GetRaises(args.username)
       THEN /\ Traceback("AttributeError")
            /\ UNCHANGED username
       ELSE /\ username' = PyOr(args.username, DictGet(config, "default_username"))
            /\ pc' = "resolve_avatar"
            /\ UNCHANGED <<stderr, exitCode>>
    /\ UNCHANGED <<inputs, config, webhook_url, avatar_url, attachments,
                   payload, files, i, handles, exc, posts, existsLog, stdout,
                   result>>

\* main, line 179.
Main_ResolveAvatar ==
    /\ pc = "resolve_avatar"
    /\ IF GetRaises(args.avatar_url)
       THEN /\ Traceback("AttributeError")
            /\ UNCHANGED avatar_url
       ELSE /\ avatar_url' = PyOr(args.avatar_url, DictGet(config, "default_avatar_url"))
            /\ pc' = "dry_run"
            /\ UNCHANGED <<stderr, exitCode>>
    /\ UNCHANGED <<inputs, config, webhook_url, username, attachments, payload,
                   files, i, handles, exc, posts, existsLog, stdout, result>>

\* Variant: the dry-run branch prints and falls through to the send.
Main_DryRun_FallsThrough ==
    /\ pc = "dry_run"
    /\ args.dry_run
    /\ stdout' = Append(stdout, <<"webhook_url", webhook_url>>)
    /\ pc' = "send_message"
    /\ UNCHANGED <<inputs, config, webhook_url, username, avatar_url,
                   attachments, payload, files, i, handles, exc, posts,
                   existsLog, stderr, result, exitCode>>

\* main, lines 182-190.
Main_DryRun ==
    /\ pc = "dry_run"
    /\ args.dry_run
    /\ stdout' = stdout \o <<<<"config", "path">>,
                             <<"webhook_url", webhook_url>>,
                             <<"message", Message>>,
                             <<"username", username>>,
                             <<"avatar_url", avatar_url>>,
                             <<"attachments", args.attachments>>>>
    /\ exitCode' = 0
    /\ pc' = "exited"
    /\ UNCHANGED <<inputs, config, webhook_url, username, avatar_url,
                   attachments, payload, files, i, handles, exc, posts,
                   existsLog, stderr, result>>

\* main, lines 193-199: construct the notifier and call send_message.
Main_CallSend ==
    /\ pc = "dry_run"
    /\ ~args.dry_run
    /\ pc' = "send_message"
    /\ UNCHANGED <<inputs, config, webhook_url, username, avatar_url,
                   attachments, payload, files, i, handles, exc, posts,
                   existsLog, stderr, stdout, result, exitCode>>

\* main, line 202.
Main_Exit ==
    /\ pc = "returned"
    /\ caller = "main"
    /\ result \in {"true", "false"}
    /\ exitCode' = ExitCodeOf(result)
    /\ pc' = "exited"
    /\ UNCHANGED <<inputs, config, webhook_url, username, avatar_url,
                   attachments, payload, files, i, handles, exc, posts,
                   existsLog, stderr, stdout, result>>

\* main, lines 194-199, when send_message raises: nothing in main catches it.
Main_Uncaught ==
    /\ pc = "returned"
    /\ caller = "main"
    /\ result = "raised"
    /\ Traceback(exc)
    /\ UNCHANGED <<inputs, config, webhook_url, username, avatar_url,
                   attachments, payload, files, i, handles, exc, posts,
                   existsLog, stdout, result>>

----------------------------------------------------------------------------
\* send_message, lines 52-65 and 78: build the payload, pick the path.
Send_BuildPayload ==
    /\ pc = "send_message"
    /\ payload' = BuildPayload(Message, username, avatar_url)
    /\ pc' = IF NotAttachments(attachments) THEN "json_post" ELSE "loop"
    /\ files' = <<>>
    /\ i' = 0
    /\ UNCHANGED <<inputs, config, webhook_url, username, avatar_url,
                   attachments, handles, exc, posts, existsLog, stderr, stdout,
                   result, exitCode>>

\* send_message, lines 66-75: the JSON path.
Send_JsonPost ==
    /\ pc = "json_post"
    /\ \E outcome \in PostOutcomes :
        /\ posts' = Append(posts, [kind |-> "json", url |-> webhook_url,
                                   body |-> payload, files |-> <<>>,
                                   outcome |-> outcome])
        /\ IF outcome = "ok"
           THEN /\ result' = "true"
                /\ UNCHANGED <<stderr, exc>>
           ELSE IF IsRequestException(outcome)
           THEN /\ result' = "false"
                /\ stderr' = Append(stderr, <<"send-failed", outcome>>)
                /\ UNCHANGED exc
           ELSE /\ result' = "raised"
                /\ exc' = outcome
                /\ UNCHANGED stderr
    /\ pc' = "returned"
    /\ UNCHANGED <<inputs, config, webhook_url, username, avatar_url,
                   attachments, payload, files, i, handles, existsLog, stdout,
                   exitCode>>

\* send_message, lines 80-83: the path does not exist, warn and continue.
Send_SkipMissing ==
    /\ pc = "loop"
    /\ i < Len(attachments.list)
    /\ existsLog' = Append(existsLog, [index |-> i, path |-> attachments.list[i + 1],
                                       exists |-> FALSE])
    /\ stderr' = Append(stderr, <<"warning-missing", attachments.list[i + 1]>>)
    /\ i' = i + 1
    /\ UNCHANGED <<inputs, pc, config, webhook_url, username, avatar_url,
                   attachments, payload, files, handles, exc, posts, stdout,
                   result, exitCode>>

\* send_message, lines 80-88: the path exists and open succeeds.
Send_OpenFile ==
    /\ pc = "loop"
    /\ i < Len(attachments.list)
    /\ existsLog' = Append(existsLog, [index |-> i, path |-> attachments.list[i + 1],
                                       exists |-> TRUE])
    /\ handles' = Append(handles, "open")
    /\ files' = Append(files, [field |-> FieldName(i),
                               name |-> Basename(attachments.list[i + 1]),
                               handle |-> Len(handles) + 1,
                               type |-> "application/octet-stream"])
    /\ i' = i + 1
    /\ UNCHANGED <<inputs, pc, config, webhook_url, username, avatar_url,
                   attachments, payload, exc, posts, stderr, stdout, result,
                   exitCode>>

\* Variant: a failing open is treated like a missing file.
Send_OpenFails_Skip ==
    /\ pc = "loop"
    /\ i < Len(attachments.list)
    /\ existsLog' = Append(existsLog, [index |-> i, path |-> attachments.list[i + 1],
                                       exists |-> TRUE])
    /\ i' = i + 1
    /\ UNCHANGED <<inputs, pc, config, webhook_url, username, avatar_url,
                   attachments, payload, files, handles, exc, posts, stderr,
                   stdout, result, exitCode>>

\* send_message, lines 80-87: the path exists and open raises OSError (a
\* directory, no permission, removed since the check).
Send_OpenFails ==
    /\ pc = "loop"
    /\ i < Len(attachments.list)
    /\ existsLog' = Append(existsLog, [index |-> i, path |-> attachments.list[i + 1],
                                       exists |-> TRUE])
    /\ exc' = "OSError"
    /\ pc' = "except"
    /\ UNCHANGED <<inputs, config, webhook_url, username, avatar_url,
                   attachments, payload, files, i, handles, posts, stderr,
                   stdout, result, exitCode>>

\* send_message, lines 90-97: the multipart POST.
Send_MultipartPost ==
    /\ pc = "loop"
    /\ i = Len(attachments.list)
    /\ \E outcome \in PostOutcomes :
        /\ posts' = Append(posts, [kind |-> "multipart", url |-> webhook_url,
                                   body |-> [payload_json |-> JsonDumps(payload)],
                                   files |-> files, outcome |-> outcome])
        /\ IF outcome = "ok"
           THEN /\ pc' = "close"
                /\ UNCHANGED exc
           ELSE /\ pc' = "except"
                /\ exc' = outcome
    /\ UNCHANGED <<inputs, config, webhook_url, username, avatar_url,
                   attachments, payload, files, i, handles, existsLog, stderr,
                   stdout, result, exitCode>>

\* send_message, lines 99-103.
Send_CloseAndReturn ==
    /\ pc = "close"
    /\ handles' = CloseFiles(handles, files)
    /\ result' = "true"
    /\ pc' = "returned"
    /\ UNCHANGED <<inputs, config, webhook_url, username, avatar_url,
                   attachments, payload, files, i, exc, posts, existsLog,
                   stderr, stdout, exitCode>>

\* send_message, lines 104-110.
Send_ExceptRequestException ==
    /\ pc = "except"
    /\ IsRequestException(exc)
    /\ stderr' = Append(stderr, <<"send-failed", exc>>)
    /\ handles' = CloseFiles(handles, files)
    /\ result' = "false"
    /\ pc' = "returned"
    /\ UNCHANGED <<inputs, config, webhook_url, username, avatar_url,
                   attachments, payload, files, i, exc, posts, existsLog,
                   stdout, exitCode>>

\* Variant: the handler for unexpected exceptions returns without closing.
Send_ExceptException_Leak ==
    /\ pc = "except"
    /\ exc \notin {"ConnectionError", "HTTPError"}
    /\ stderr' = Append(stderr, <<"unexpected", exc>>)
    /\ result' = "false"
    /\ pc' = "returned"
    /\ UNCHANGED <<inputs, config, webhook_url, username, avatar_url,
                   attachments, payload, files, i, handles, exc, posts,
                   existsLog, stdout, exitCode>>

\* send_message, lines 111-117.
Send_ExceptException ==
    /\ pc = "except"
    /\ ~IsRequestException(exc)
    /\ stderr' = Append(stderr, <<"unexpected", exc>>)
    /\ handles' = CloseFiles(handles, files)
    /\ result' = "false"
    /\ pc' = "returned"
    /\ UNCHANGED <<inputs, config, webhook_url, username, avatar_url,
                   attachments, payload, files, i, exc, posts, existsLog,
                   stdout, exitCode>>

----------------------------------------------------------------------------
Next ==
    \/ Main_LoadConfig
    \/ Main_ResolveWebhook
    \/ Main_ResolveUsername
    \/ Main_ResolveAvatar
    \/ Main_DryRun
    \/ Main_CallSend
    \/ Main_Exit
    \/ Main_Uncaught
    \/ Send_BuildPayload
    \/ Send_JsonPost
    \/ Send_SkipMissing
    \/ Send_OpenFile
    \/ Send_OpenFails
    \/ Send_MultipartPost
    \/ Send_CloseAndReturn
    \/ Send_ExceptRequestException
    \/ Send_ExceptException

Spec == Init /\ [][Next]_vars

TypeOK == pc \in {"load_config", "resolve_webhook", "resolve_username",
                  "resolve_avatar", "dry_run", "send_message", "json_post",
                  "loop", "close", "except", "returned", "exited"}


----------------------------------------------------------------------------
\* Vocabulary of the properties, stated on the inputs and the observable
\* effects (requests issued, files opened, exit code).

NonEmpty(v) == v /= None /\ v /= ""

\* The value of a config key, None when the file has no such key.
ConfigKey(k) == IF k \in DOMAIN cfgFile THEN cfgFile[k] ELSE None

ConfigUnusable == cfgState \in {"missing", "invalid", "unreadable"}

\* Neither the flag nor the config file gives a non-empty webhook URL.
NoWebhookUrl == ~NonEmpty(args.webhook_url) /\ ~NonEmpty(ConfigKey("webhook_url"))

NoNetwork == posts = <<>>

NoFileTouched == handles = <<>> /\ existsLog = <<>>

AllClosed == \A h \in DOMAIN handles : handles[h] = "closed"

SendReturned == pc \in {"returned", "exited"} /\ result \in {"true", "false"}

WithAttachments == attachments.present /\ attachments.list /= <<>>

\* The os.path.exists calls that answered True, in call order.
Found == SelectSeq(existsLog, LAMBDA e : e.exists)

\* An open raised: a path was found and no handle was added for it.
OpenFailed == Len(Found) > Len(handles)

\* C1: when send_message has returned from a call with a non-empty
\* attachment list, every file handle opened during the call is closed, and
\* every handle opened was recorded in files.
C1_HandlesClosedOnReturn ==
    (SendReturned /\ WithAttachments) =>
        /\ AllClosed
        /\ \A h \in DOMAIN handles : \E n \in DOMAIN files : files[n].handle = h

\* C1 witness: a later open failed after an earlier file was opened, the
\* call returned false and the earlier handle is closed.
C1_Witness ==
    /\ pc = "returned" /\ result = "false"
    /\ OpenFailed /\ Len(handles) >= 1 /\ AllClosed

\* C2 (as claimed): send_message never raises; it returns true exactly when
\* the POST succeeded and false on every exception.
C2_SendNeverRaises ==
    pc \in {"returned", "exited"} /\ result /= "none" =>
        /\ result \in {"true", "false"}
        /\ result = "true" <=> (posts /= <<>> /\ posts[Len(posts)].outcome = "ok")

\* C3 (as claimed): with --dry-run, whatever the config file state and the
\* other flags, no request is issued, no attachment is touched and the exit
\* code is 0.
C3_DryRunAlwaysExitsZero ==
    (caller = "main" /\ args.dry_run) =>
        /\ NoNetwork /\ NoFileTouched
        /\ pc = "exited" => exitCode = 0

\* C3 (amended): with --dry-run no request is issued and no attachment is
\* opened or checked for existence; the exit code is 0 when the config file
\* holds a JSON object and a non-empty webhook URL resolves, and 1 when the
\* config file is missing, unreadable or invalid or no webhook URL resolves.
C3_DryRunNoSideEffects ==
    (caller = "main" /\ args.dry_run) =>
        /\ NoNetwork /\ NoFileTouched
        /\ pc \notin {"send_message", "json_post", "loop", "close", "except", "returned"}
        /\ (pc = "exited" /\ cfgState = "object" /\ ~NoWebhookUrl) => exitCode = 0
        /\ (pc = "exited" /\ (ConfigUnusable \/ NoWebhookUrl)) => exitCode = 1

\* C3 witness: a dry run with attachments given that printed the settings
\* and exited 0.
C3_Witness ==
    /\ caller = "main" /\ args.dry_run /\ args.attachments.present
    /\ pc = "exited" /\ exitCode = 0 /\ stdout /= <<>>

\* C4: when neither the CLI flag nor the config file yields a non-empty
\* webhook_url, main never gets past the check: it exits with code 1, with
\* no HTTP call made and no attachment file touched, dry run or not.
C4_NoWebhookExitsOne ==
    (caller = "main" /\ NoWebhookUrl) =>
        /\ pc \in {"load_config", "resolve_webhook", "exited"}
        /\ pc = "exited" => exitCode = 1
        /\ NoNetwork /\ NoFileTouched

\* C4 witness: the config loaded as an object, no URL resolved, and the run
\* exited on the missing-URL diagnostic although attachments were given.
C4_Witness ==
    /\ caller = "main" /\ cfgState = "object" /\ NoWebhookUrl
    /\ args.attachments.present
    /\ pc = "exited" /\ exitCode = 1 /\ stderr = <<<<"no-webhook-url">>>>

\* C5: when the POST is answered with an HTTP error status, send_message
\* returns false and main exits with code 1, on the JSON and on the
\* multipart path alike, and that POST is the only request of the run.
C5_HttpErrorFails ==
    (\E n \in DOMAIN posts : posts[n].outcome = "HTTPError") =>
        /\ Len(posts) = 1
        /\ result \in {"none", "false"}
        /\ pc \in {"returned", "exited"} => result = "false"
        /\ pc \in {"except", "returned", "exited"}
        /\ pc = "exited" => exitCode = 1

\* C5 witness: main exited 1 after a multipart POST got an HTTP error.
C5_Witness ==
    /\ caller = "main" /\ pc = "exited" /\ exitCode = 1
    /\ Len(posts) = 1 /\ posts[1].kind = "multipart"
    /\ posts[1].outcome = "HTTPError" /\ result = "false"

\* C6: the multipart request carries exactly one file field per path that
\* exists, in list order; the field for the path at position k of the
\* original list is named "file" + k and carries the path's basename; each
\* missing path is warned about, and missing paths never stop the request:
\* the only way past the loop without a POST is a failed open.
C6_FileFields ==
    /\ \A n \in DOMAIN posts : posts[n].kind = "multipart" =>
        /\ Len(existsLog) = Len(attachments.list)
        /\ \A k \in DOMAIN existsLog :
              /\ existsLog[k].index = k - 1
              /\ existsLog[k].path = attachments.list[k]
        /\ Len(posts[n].files) = Len(Found)
        /\ \A m \in DOMAIN posts[n].files :
              LET f == posts[n].files[m]
                  p == attachments.list[Found[m].index + 1]
              IN  /\ f.field = <<"file", Found[m].index>>
                  /\ f.name = p[Len(p)]
        /\ SelectSeq(stderr, LAMBDA d : d[1] = "warning-missing")
              = [m \in 1..(Len(existsLog) - Len(Found)) |->
                    <<"warning-missing", SelectSeq(existsLog, LAMBDA e : ~e.exists)[m].path>>]
    /\ (WithAttachments /\ pc \in {"close", "except", "returned", "exited"}
            /\ result /= "none" /\ posts = <<>>) => OpenFailed

\* C6 witness: a list whose first path is missing and whose second exists
\* was sent: one file field, named for position 1.
C6_Witness ==
    /\ Len(posts) = 1 /\ posts[1].kind = "multipart"
    /\ Len(existsLog) = 2 /\ ~existsLog[1].exists /\ existsLog[2].exists
    /\ Len(posts[1].files) = 1 /\ posts[1].files[1].field = <<"file", 1>>

\* The merge rule of the claim: the flag if non-empty, else the config key,
\* else None.
Merged(cli, key) ==
    IF NonEmpty(cli) THEN cli
    ELSE IF key \in DOMAIN cfgFile THEN cfgFile[key]
    ELSE None

\* main has computed all three effective values.
Resolved ==
    /\ caller = "main"
    /\ \/ pc \in {"dry_run", "send_message", "json_post", "loop", "close",
                  "except", "returned"}
       \/ pc = "exited" /\ (stdout /= <<>> \/ result /= "none")

\* C7: each effective value computed by main is the CLI flag if it is
\* non-empty, otherwise the value of the config key, otherwise None; a
\* non-empty flag overrides a non-empty config value.
C7_MergePolicy ==
    /\ (caller = "main" /\ pc \in {"resolve_username", "resolve_avatar"}) =>
            webhook_url = Merged(args.webhook_url, "webhook_url")
    /\ (caller = "main" /\ pc = "resolve_avatar") =>
            username = Merged(args.username, "default_username")
    /\ Resolved =>
        /\ webhook_url = Merged(args.webhook_url, "webhook_url")
        /\ username = Merged(args.username, "default_username")
        /\ avatar_url = Merged(args.avatar_url, "default_avatar_url")

\* C7 witness: the flag overrides the config's URL, an empty username flag
\* falls back to the config, and the avatar is in neither.
C7_Witness ==
    /\ Resolved
    /\ args.webhook_url = "cli" /\ ConfigKey("webhook_url") = "cfg"
    /\ webhook_url = "cli"
    /\ args.username = "" /\ username = "cfg"
    /\ args.avatar_url = None /\ "default_avatar_url" \notin DOMAIN cfgFile
    /\ avatar_url = None

\* C8: when the config file is missing, unreadable or not valid JSON, no
\* config is returned and the process ends at load_config with exit code 1,
\* before any attachment is touched and before any HTTP call, whatever the
\* flags.
C8_ConfigFailureExitsOne ==
    (caller = "main" /\ ConfigUnusable) =>
        /\ pc \in {"load_config", "exited"}
        /\ pc = "exited" => exitCode = 1
        /\ config = NoConfig /\ webhook_url = None
        /\ NoNetwork /\ NoFileTouched

\* C8 witness: an invalid config file ended a dry run that had a webhook
\* URL flag and attachments.
C8_Witness ==
    /\ caller = "main" /\ cfgState = "invalid" /\ pc = "exited" /\ exitCode = 1
    /\ args.webhook_url = "cli" /\ args.dry_run /\ args.attachments.present

\* C9: the request is a JSON request exactly when the attachment list is
\* absent or empty and a multipart request (payload_json plus the files)
\* otherwise; no files are looked at on the JSON path; at most one request
\* is sent; when every supplied path is missing the request is still a
\* multipart one, with no files.
C9_RequestShape ==
    /\ Len(posts) <= 1
    /\ \A n \in DOMAIN posts :
        /\ posts[n].kind = "json" <=> (~attachments.present \/ Len(attachments.list) = 0)
        /\ posts[n].kind = "multipart" <=> (attachments.present /\ Len(attachments.list) > 0)
        /\ posts[n].kind = "json" => NoFileTouched /\ posts[n].body = payload
        /\ posts[n].kind = "multipart" =>
              /\ DOMAIN posts[n].body = {"payload_json"}
              /\ posts[n].body.payload_json = <<"json-text", payload>>
              /\ posts[n].files = files
    /\ (WithAttachments /\ SendReturned /\ Found = <<>>) =>
        /\ Len(posts) = 1 /\ posts[1].kind = "multipart" /\ posts[1].files = <<>>

\* C9 witness: two paths supplied, both missing, and one multipart request
\* without files was sent.
C9_Witness ==
    /\ SendReturned /\ Len(existsLog) = 2 /\ Found = <<>>
    /\ Len(posts) = 1 /\ posts[1].kind = "multipart" /\ posts[1].files = <<>>

\* C10: every handle is opened before the POST; when opening an existing
\* path fails the send is aborted: no HTTP request is made, send_message
\* returns false, and the handles opened for earlier paths are closed.
C10_OpenFailureAborts ==
    /\ \A n \in DOMAIN posts : posts[n].kind = "multipart" =>
            Len(existsLog) = Len(attachments.list) /\ ~OpenFailed
    /\ OpenFailed =>
        /\ NoNetwork
        /\ pc \in {"except", "returned", "exited"}
        /\ result \in {"none", "false"}
        /\ pc \in {"returned", "exited"} => (result = "false" /\ AllClosed)
        /\ caller = "main" /\ pc = "exited" => exitCode = 1

\* C10 witness: the first path was opened, the open of the second failed,
\* and the call returned false with the first handle closed and no request.
C10_Witness ==
    /\ OpenFailed /\ pc = "returned" /\ result = "false"
    /\ Len(handles) = 1 /\ handles[1] = "closed" /\ posts = <<>>

====
